---- MODULE Spec2Model ----
(***************************************************************************)
(* Model of src/src/hibiscus_sankey/cli.py: the category tree              *)
(* (SankeyNode, SankeyNodePool), the accumulation loop of parse_csv and    *)
(* the pipeline of main (div, purge, assign_colors, assign_indices,        *)
(* create_links).                                                          *)
(*                                                                         *)
(* A category path is the sequence of its segments ("Food/Groceries" is    *)
(* <<"Food", "Groceries">>): str.split("/") and "/".join are inverse on    *)
(* non-empty lists of non-empty segments, which is what the ledger export  *)
(* produces.  A SankeyNode object is identified by its name (its path);    *)
(* heap maps every object ever constructed to its fields, also after the   *)
(* pool has dropped it, because parent references and income_node keep     *)
(* such objects alive.  nodes is the key order of the dict pool.nodes.     *)
(* Rows with an empty column are skipped by parse_csv and change nothing,  *)
(* so they are left out.                                                   *)
(* Amounts are integers that every divisor divides, so node.value /=       *)
(* divisor is exact and float arithmetic coincides with integer            *)
(* arithmetic.                                                             *)
(***************************************************************************)
EXTENDS Integers, Sequences, FiniteSets, TLC

\* Number of rows read from the CSV files.
MaxRows == 3

\* Values of the column "Kategorie-Pfad".
Categories ==
    { <<"Income">>, <<"Income", "Salary">>,
      <<"Food">>, <<"Food", "Groceries">>, <<"Food", "Groceries", "Organic">>,
      <<"Food", "Restaurants">>, <<"Rent">> }

\* Values of the column "Betrag".
Amounts == {-2, 2, 4}

\* Values of --div and --threshold.
Divisors == {1, 2}

Thresholds == {0, 2}

VARIABLES rows, nodes, heap, income_node, links, stage, divisor, threshold

vars == <<rows, nodes, heap, income_node, links, stage, divisor, threshold>>

(***************************************************************************)
(* Helpers                                                                 *)
(***************************************************************************)
Range(s) == {s[i] : i \in 1..Len(s)}

Abs(x) == IF x < 0 THEN -x ELSE x

\* "/".join(parts[:i])
Prefix(path, i) == SubSeq(path, 1, i)

IsPrefix(p, q) == Len(p) <= Len(q) /\ SubSeq(q, 1, Len(p)) = p

\* None, and the empty string parent_node of a top-level path.
NoNode == <<>>

Put(h, name, rec) == [n \in DOMAIN h \cup {name} |-> IF n = name THEN rec ELSE h[n]]

(***************************************************************************)
(* ColorPalette                                                            *)
(***************************************************************************)
COLOR_PALETTE ==
    << "4E79A7", "F28E2B", "E15759", "76B7B2", "59A14F", "EDC948", "B07AA1",
       "FF9DA7", "9C755F", "BAB0AC", "8CD17D", "FF9F80", "A0CBE8", "C9C9C9",
       "D37295" >>

\* pick_one: the color at the 0-based index, and the index that follows it.
PickOne(index) ==
    [result |-> COLOR_PALETTE[index + 1], index |-> (index + 1) % Len(COLOR_PALETTE)]

(***************************************************************************)
(* SankeyNode                                                              *)
(***************************************************************************)
SankeyNode(name) ==
    [ children |-> {}, parent |-> NoNode, color |-> "", value |-> 0, index |-> 0,
      is_toplevel |-> (Len(name) = 1), is_income |-> FALSE ]

\* parent.add_child(child)
AddChild(h, parent, child) ==
    [h EXCEPT ![parent].children = @ \cup {child}, ![child].parent = parent]

\* parent.rm_child(child)
RmChild(h, parent, child) ==
    IF child \in h[parent].children
    THEN [h EXCEPT ![parent].children = @ \ {child}]
    ELSE h

\* do_recursive that applies func to the children instead of recursing into
\* them, as the older src/sankeygen.py does.
DoRecursiveChildrenOnly(h, n) == {n} \cup h[n].children

\* node.do_recursive(func): the objects func is applied to.
RECURSIVE DoRecursive(_, _)
DoRecursive(h, n) == {n} \cup UNION {DoRecursive(h, c) : c \in h[n].children}

(***************************************************************************)
(* SankeyLink                                                              *)
(***************************************************************************)
SankeyLink(h, source, target) ==
    [ source |-> source, target |-> target,
      value |-> Abs(IF ~h[target].is_income THEN h[target].value ELSE h[source].value) ]

PlotlyLink(h, link) ==
    [ source |-> h[link.source].index, target |-> h[link.target].index,
      value |-> link.value, color |-> h[link.target].color ]

(***************************************************************************)
(* SankeyNodePool: a pool is [nodes |-> key order, heap |-> objects]       *)
(***************************************************************************)
RECURSIVE GetNodeLoop(_, _, _)
GetNodeLoop(pool, path, i) ==
    IF i > Len(path) THEN pool
    ELSE LET parent_node == Prefix(path, i - 1)
             sub_node    == Prefix(path, i)
         IN IF sub_node \in Range(pool.nodes)
            THEN GetNodeLoop(pool, path, i + 1)
            ELSE LET made == Put(pool.heap, sub_node, SankeyNode(sub_node))
                     next == [ nodes |-> Append(pool.nodes, sub_node),
                               heap  |-> IF parent_node # NoNode
                                         THEN AddChild(made, parent_node, sub_node)
                                         ELSE made ]
                 IN GetNodeLoop(next, path, i + 1)

\* get_node(path): the pool afterwards; the node it returns is heap[path].
GetNode(pool, path) == GetNodeLoop(pool, path, 1)

\* Accumulation on the row's own node only.
AccumulateLeafOnly(path) == {Len(path)}

\* for i, _ in enumerate(parts): the lengths i + 1 of the prefixes visited.
Accumulate(path) == 1..Len(path)

RECURSIVE IngestLoop(_, _, _, _)
IngestLoop(pool, path, amount, i) ==
    IF i > Len(path) THEN pool
    ELSE IF i \in Accumulate(path)
         THEN LET got == GetNode(pool, Prefix(path, i))
              IN IngestLoop([got EXCEPT !.heap[Prefix(path, i)].value = @ + amount],
                            path, amount, i + 1)
         ELSE IngestLoop(pool, path, amount, i + 1)

\* One row of parse_csv: lines 184-189.
Ingest(pool, path, amount) == IngestLoop(pool, path, amount, 1)

\* abs(node.value) < threshold
PurgedStrict(value, t) == Abs(value) < t

\* abs(node.value) <= threshold
Purged(value, t) == Abs(value) <= t

RECURSIVE PurgeLoop(_, _, _)
PurgeLoop(pool, todo, t) ==
    IF todo = <<>> THEN pool
    ELSE LET name == Head(todo)
             node == pool.heap[name]
         IN IF Purged(node.value, t)
            THEN PurgeLoop(
                   [ nodes |-> SelectSeq(pool.nodes, LAMBDA k : k # name),
                     heap  |-> IF node.parent # NoNode
                               THEN RmChild(pool.heap, node.parent, name)
                               ELSE pool.heap ],
                   Tail(todo), t)
            ELSE PurgeLoop(pool, Tail(todo), t)

\* purge(threshold): iterates over a snapshot of the items.
Purge(pool, t) == PurgeLoop(pool, pool.nodes, t)

\* A div that leaves the value as it is.
DivValueKept(value, d) == value

\* node.value /= divisor, exact on the amounts of the model.
DivValue(value, d) == value \div d

Div(pool, d) ==
    [pool EXCEPT !.heap = [n \in DOMAIN pool.heap |->
        IF n \in Range(pool.nodes)
        THEN [pool.heap[n] EXCEPT !.value = DivValue(@, d)]
        ELSE pool.heap[n]]]

SetColor(h, set, color) ==
    [n \in DOMAIN h |-> IF n \in set THEN [h[n] EXCEPT !.color = color] ELSE h[n]]

RECURSIVE AssignColorsLoop(_, _, _)
AssignColorsLoop(pool, todo, index) ==
    IF todo = <<>> THEN pool
    ELSE IF pool.heap[Head(todo)].is_toplevel
         THEN LET pick == PickOne(index)
              IN AssignColorsLoop(
                   [pool EXCEPT !.heap = SetColor(@, DoRecursive(@, Head(todo)), pick.result)],
                   Tail(todo), pick.index)
         ELSE AssignColorsLoop(pool, Tail(todo), index)

AssignColors(pool) == AssignColorsLoop(pool, pool.nodes, 0)

AssignIndices(pool) ==
    [pool EXCEPT !.heap = [n \in DOMAIN pool.heap |->
        IF n \in Range(pool.nodes)
        THEN [pool.heap[n] EXCEPT
                !.index = (CHOOSE i \in 1..Len(pool.nodes) : pool.nodes[i] = n) - 1]
        ELSE pool.heap[n]]]

\* Insertion of an unstable sort that puts x before the elements of equal key.
InsertBeforeEqual(h, s, x) ==
    LET k == Cardinality({i \in 1..Len(s) : h[s[i]].value < h[x].value})
    IN SubSeq(s, 1, k) \o <<x>> \o SubSeq(s, k + 1, Len(s))

\* Insertion of x, which follows the elements of s in the input, into the
\* sorted s: a stable sort keeps x after the elements of equal key.
Insert(h, s, x) ==
    LET k == Cardinality({i \in 1..Len(s) : h[s[i]].value <= h[x].value})
    IN SubSeq(s, 1, k) \o <<x>> \o SubSeq(s, k + 1, Len(s))

\* sorted(self.nodes.values(), key=lambda x: x.value)
RECURSIVE Sorted(_, _)
Sorted(h, s) ==
    IF s = <<>> THEN <<>>
    ELSE Insert(h, Sorted(h, SubSeq(s, 1, Len(s) - 1)), s[Len(s)])

SetIncome(h, set) ==
    [n \in DOMAIN h |-> IF n \in set THEN [h[n] EXCEPT !.is_income = TRUE] ELSE h[n]]

\* sorted(...)[0]
LowestValue(h, s) == Sorted(h, s)[1]

\* sorted(...)[-1]
IncomeChoice(h, s) == Sorted(h, s)[Len(s)]

\* The link create_links appends for node, if any; "of" records the node
\* of the iteration, which the SankeyLink object does not store.
LinkOf(h, income, name) ==
    LET node == h[name]
    IN IF node.is_income
       THEN IF node.parent # NoNode
            THEN <<[of |-> name] @@ SankeyLink(h, name, node.parent)>>
            ELSE <<>>
       ELSE IF node.parent # NoNode
            THEN <<[of |-> name] @@ SankeyLink(h, node.parent, name)>>
            ELSE <<[of |-> name] @@ SankeyLink(h, income, name)>>

RECURSIVE CreateLinks(_, _, _)
CreateLinks(h, income, todo) ==
    IF todo = <<>> THEN <<>>
    ELSE LinkOf(h, income, Head(todo)) \o CreateLinks(h, income, Tail(todo))

(***************************************************************************)
(* parse_csv and main                                                      *)
(***************************************************************************)
Pool == [nodes |-> nodes, heap |-> heap]

Init ==
    /\ rows = <<>>
    /\ nodes = <<>>
    /\ heap = [n \in {} |-> SankeyNode(n)]
    /\ income_node = NoNode
    /\ links = <<>>
    /\ stage = "parsing"
    /\ divisor = 1
    /\ threshold = 0

\* parse_csv, one row with both columns set.
ReadRow ==
    /\ stage = "parsing"
    /\ Len(rows) < MaxRows
    /\ \E path \in Categories, amount \in Amounts :
         LET got == Ingest(Pool, path, amount)
         IN /\ rows' = Append(rows, <<path, amount>>)
            /\ nodes' = got.nodes
            /\ heap' = got.heap
    /\ UNCHANGED <<income_node, links, stage, divisor, threshold>>

\* parse_csv after the last row: pool.assign_income_node().
AssignIncomeNode ==
    /\ stage = "parsing"
    /\ nodes # <<>>
    /\ LET income == IncomeChoice(heap, nodes)
       IN /\ heap' = SetIncome(heap, DoRecursive(heap, income))
          /\ income_node' = income
    /\ stage' = "parsed"
    /\ UNCHANGED <<rows, nodes, links, divisor, threshold>>

\* The same on an empty pool: sorted([])[-1] raises IndexError.
AssignIncomeNodeEmpty ==
    /\ stage = "parsing"
    /\ nodes = <<>>
    /\ stage' = "error"
    /\ UNCHANGED <<rows, nodes, heap, income_node, links, divisor, threshold>>

\* pool.div(args.div); args.div is first read here.
DivStep ==
    /\ stage = "parsed"
    /\ \E d \in Divisors :
         /\ divisor' = d
         /\ heap' = Div(Pool, d).heap
    /\ stage' = "scaled"
    /\ UNCHANGED <<rows, nodes, income_node, links, threshold>>

\* pool.purge(args.threshold); args.threshold is first read here.
PurgeStep ==
    /\ stage = "scaled"
    /\ \E t \in Thresholds :
         LET got == Purge(Pool, t)
         IN /\ threshold' = t
            /\ nodes' = got.nodes
            /\ heap' = got.heap
    /\ stage' = "purged"
    /\ UNCHANGED <<rows, income_node, links, divisor>>

AssignColorsStep ==
    /\ stage = "purged"
    /\ heap' = AssignColors(Pool).heap
    /\ stage' = "colored"
    /\ UNCHANGED <<rows, nodes, income_node, links, divisor, threshold>>

AssignIndicesStep ==
    /\ stage = "colored"
    /\ heap' = AssignIndices(Pool).heap
    /\ stage' = "indexed"
    /\ UNCHANGED <<rows, nodes, income_node, links, divisor, threshold>>

CreateLinksStep ==
    /\ stage = "indexed"
    /\ links' = links \o CreateLinks(heap, income_node, nodes)
    /\ stage' = "linked"
    /\ UNCHANGED <<rows, nodes, heap, income_node, divisor, threshold>>

Next ==
    \/ ReadRow
    \/ AssignIncomeNode
    \/ AssignIncomeNodeEmpty
    \/ DivStep
    \/ PurgeStep
    \/ AssignColorsStep
    \/ AssignIndicesStep
    \/ CreateLinksStep

Spec == Init /\ [][Next]_vars

(***************************************************************************)
(* Properties                                                              *)
(***************************************************************************)
Removed == DOMAIN heap \ Range(nodes)

Survives(n) == n \in Range(nodes)

BeforeScaling == stage \in {"parsing", "parsed"}

AfterParse == stage \in {"parsed", "scaled", "purged", "colored", "indexed", "linked"}

AfterPurge == stage \in {"purged", "colored", "indexed", "linked"}

AfterColors == stage \in {"colored", "indexed", "linked"}

RECURSIVE SumRows(_, _)
SumRows(rs, n) ==
    IF rs = <<>> THEN 0
    ELSE SumRows(SubSeq(rs, 1, Len(rs) - 1), n)
         + (IF IsPrefix(n, rs[Len(rs)][1]) THEN rs[Len(rs)][2] ELSE 0)

IngestedPaths == UNION {{Prefix(rows[k][1], i) : i \in 1..Len(rows[k][1])} : k \in 1..Len(rows)}

\* C1: before scaling and pruning, the pool holds exactly the ingested paths
\* and their ancestor prefixes, each once, and the value of every node is
\* the sum of the amounts of the rows whose path is the node's path or a
\* descendant of it.
C1_Aggregation ==
    BeforeScaling =>
        /\ Range(nodes) = IngestedPaths
        /\ Cardinality(Range(nodes)) = Len(nodes)
        /\ DOMAIN heap = Range(nodes)
        /\ \A n \in Range(nodes) : heap[n].value = SumRows(rows, n)

\* A node that sums a row on its own path and a row on a proper descendant,
\* while another row does not count for it.
C1_Witness ==
    /\ stage = "parsed"
    /\ \E n \in Range(nodes) :
         /\ \E j, k \in 1..Len(rows) :
              /\ rows[j][1] = n
              /\ IsPrefix(n, rows[k][1]) /\ rows[k][1] # n
              /\ heap[n].value = rows[j][2] + rows[k][2]
         /\ \E k \in 1..Len(rows) : ~IsPrefix(n, rows[k][1])

\* C2: on a non-empty surviving set create_links emits one link for every
\* surviving node but the income root and none for the income root, so
\* there is one link less than there are surviving nodes.
C2_LinkCompleteness ==
    (stage = "linked" /\ nodes # <<>>) =>
        /\ Len(links) = Len(nodes) - 1
        /\ \A i \in 1..Len(links) : links[i].of # income_node
        /\ \A n \in Range(nodes) \ {income_node} :
             Cardinality({i \in 1..Len(links) : links[i].of = n}) = 1

\* C3: both ends of every emitted link are surviving nodes, and the indices
\* plotly_link exposes are the positions of these two nodes.
C3_LinksJoinSurvivors ==
    stage = "linked" =>
        \A i \in 1..Len(links) :
            /\ Survives(links[i].source)
            /\ Survives(links[i].target)
            /\ nodes[PlotlyLink(heap, links[i]).source + 1] = links[i].source
            /\ nodes[PlotlyLink(heap, links[i]).target + 1] = links[i].target

C5_IncomeSubtree ==
    /\ AfterParse => \A n \in DOMAIN heap : heap[n].is_income <=> IsPrefix(income_node, n)
    /\ stage = "parsing" => \A n \in DOMAIN heap : ~heap[n].is_income

\* The income root has a surviving descendant two levels below it, and a
\* surviving node outside its subtree, at the end of the pipeline.
C5_Witness ==
    /\ stage = "linked"
    /\ \E n \in Range(nodes) : IsPrefix(income_node, n) /\ Len(n) = Len(income_node) + 2
    /\ \E n \in Range(nodes) : ~IsPrefix(income_node, n)

TopLevels == SelectSeq(nodes, LAMBDA n : Len(n) = 1)

\* C6: after assign_colors every surviving node has the palette color of its
\* top-level ancestor, the k-th top-level node of the pool (from 0) having
\* palette entry k mod 15; no surviving node has the empty color.
C6_ColorInheritance ==
    AfterColors =>
        \A n \in Range(nodes) :
            /\ heap[n].color # ""
            /\ \E k \in 1..Len(TopLevels) :
                 /\ TopLevels[k] = Prefix(n, 1)
                 /\ heap[n].color = COLOR_PALETTE[((k - 1) % 15) + 1]

\* C7: the link emitted for node n has the magnitude of n's value, and runs
\* from n to its parent if n is income and has a parent, from the parent to
\* n if n is not income and has a parent, and from the income root to n if
\* n is not income and has no parent.
C7_LinkRule ==
    stage = "linked" =>
        \A i \in 1..Len(links) :
            LET l == links[i]
                n == heap[l.of]
            IN /\ l.value = Abs(n.value)
               /\ (n.is_income /\ n.parent # NoNode) =>
                    (l.source = l.of /\ l.target = n.parent)
               /\ (~n.is_income /\ n.parent # NoNode) =>
                    (l.source = n.parent /\ l.target = l.of)
               /\ (~n.is_income /\ n.parent = NoNode) =>
                    (l.source = income_node /\ l.target = l.of)

\* C8: div(d) then purge(t) leaves the same paths in the pool as purge(t*d)
\* then div(d), for every divisor and threshold.
C8_ScalingLinearity ==
    BeforeScaling =>
        \A d \in Divisors, t \in Thresholds :
            Range(Purge(Div(Pool, d), t).nodes) = Range(Div(Purge(Pool, t * d), d).nodes)

\* A pool where dividing matters: for some divisor above 1 and some
\* threshold, pruning after the division keeps some nodes, drops others, and
\* drops a node that pruning at the same threshold without division keeps.
C8_Witness ==
    /\ stage = "parsed"
    /\ \E d \in Divisors, t \in Thresholds :
         LET kept == Range(Purge(Div(Pool, d), t).nodes)
         IN /\ d > 1
            /\ kept # {}
            /\ kept # Range(nodes)
            /\ kept # Range(Purge(Pool, t).nodes)

MaxValued == {i \in 1..Len(nodes) : \A j \in 1..Len(nodes) : heap[nodes[i]].value >= heap[nodes[j]].value}

C10_PurgeFrame ==
    [][(stage = "scaled" /\ stage' = "purged") =>
        LET gone == {n \in Range(nodes) : Abs(heap[n].value) <= threshold'}
        IN /\ nodes' = SelectSeq(nodes, LAMBDA n : Abs(heap[n].value) > threshold')
           /\ DOMAIN heap' = DOMAIN heap
           /\ \A n \in gone :
                heap[n].parent # NoNode => n \notin heap'[heap[n].parent].children
           /\ \A n \in DOMAIN heap :
                heap'[n] = [heap[n] EXCEPT !.children = @ \ gone]
    ]_vars

\* purge has removed a child of a surviving parent whose value counts the
\* removed child's rows.
C10_Witness ==
    /\ stage = "purged"
    /\ \E n \in Removed :
         /\ heap[n].parent # NoNode
         /\ Survives(heap[n].parent)
         /\ heap[n].value # 0
         /\ heap[heap[n].parent].children # {}
====
